---- MODULE Spec2Model ----
(***************************************************************************)
(* Model of the fire-location map: the Pinia data store                    *)
(* (src/src/stores/dataStore.js) and the MapTab component                  *)
(* (src/src/tabs/MapTab.vue, the D3 revision at lines 1-923; the Leaflet   *)
(* revision at lines 1011-1482 shares initMap, createMap, the resize       *)
(* handling, onUnmounted and displaySavedLocations word for word).         *)
(*                                                                         *)
(* One step of the model is one task of the UI event loop: a timer         *)
(* callback, a settled fetch with the promise continuations that follow it *)
(* in the same microtask checkpoint, a user click, an observer             *)
(* notification, or a lifecycle hook.                                      *)
(***************************************************************************)
EXTENDS Integers, Sequences, FiniteSets, TLC

NULL == "null"

(* ---------------------------------------------------------------- bounds *)
\* longest features array a fetched document carries
MaxLen == 1
\* most stops of a gradient other than the configured one
MaxStops == 3
MaxFeatures == 3
\* the container's width and height range over 0 .. MaxDim
MaxDim == 1
\* the map's zoom ranges over 0 .. MaxZoom
MaxZoom == 1
\* resize notifications that arrive while a debounce timer is pending
MaxBurst == 2

(* ------------------------------------------------------ program constants *)
maxAttempts == 20
mapViewZoom == 1

Locs == {"l1", "l2"}
Centers == {"c0", "c1"}
mapViewCenter == "c0"
Dims == 0 .. MaxDim
Zooms == 0 .. MaxZoom
Modes == {"point", "heatmap"}
Events == {"viewreset", "move", "zoom", "resize"}
\* names for the layer objects alive at once, and for the pending timers
LayerIds == {"L1", "L2", "L3", "L4", "L5"}
TimerIds == {"t1", "t2", "t3"}
\* the call this component makes, and a call some other user of the store
\* makes through the exported action
CompCall == "comp"
ExtCall == "ext"
CallIds == {CompCall, ExtCall}

RECURSIVE SeqsUpTo(_)
SeqsUpTo(n) ==
    IF n = 0 THEN {<< >>}
    ELSE LET S == SeqsUpTo(n - 1)
         IN S \cup {Append(s, l) : s \in {t \in S : Len(t) = n - 1}, l \in Locs}

FeatureLists == SeqsUpTo(MaxLen)
\* a fetched document: its features array, or no features field at all
NoFeatures == [hasFeatures |-> FALSE, features |-> << >>]
Docs == {[hasFeatures |-> TRUE, features |-> f] : f \in FeatureLists}
            \cup {NoFeatures}

\* the ways a fetch-and-parse can fail
NoFailure == [kind |-> "none", status |-> 0]
FetchRejected == [kind |-> "network", status |-> 0]
HttpError(status) == [kind |-> "http", status |-> status]
ParseError == [kind |-> "syntax", status |-> 0]
BadStatuses == {404, 500}

VARIABLES
    \* dataStore
    savedLocations, loading, error, storeMapInstance, selectedFeature, calls,
    \* component lifecycle and container
    lifecycle, containerRef, rectW, rectH,
    \* component state
    mapInstance, isMapReady, displayMode,
    savedMarkersLayer, heatmapInstance, worldMapLayer, sharedProjection,
    \* initMap closure
    attempts, retryTimer, loadTask,
    \* resize handling
    resizeObserver, resizeTimeout, resizeTimers, invalidateTimers,
    \* the Leaflet map object and the layer objects
    leafletMap, layers,
    \* observations
    obs, lastDisplay,
    \* the heatmap's configuration and data, the disc drawn last, and the
    \* value of the store's getStatistics
    heatmapConfig, heatData, disc, statistics

storeVars ==
    <<savedLocations, loading, error, storeMapInstance, selectedFeature, calls>>
envVars == <<lifecycle, containerRef, rectW, rectH>>
compVars == <<mapInstance, isMapReady, displayMode>>
layerVars == <<savedMarkersLayer, heatmapInstance, worldMapLayer,
               sharedProjection, leafletMap, layers>>
initVars == <<attempts, retryTimer, loadTask>>
resizeVars == <<resizeObserver, resizeTimeout, resizeTimers, invalidateTimers>>
derivedVars == <<heatmapConfig, heatData, disc, statistics>>
vars == <<storeVars, envVars, compVars, layerVars, initVars, resizeVars,
          obs, lastDisplay, derivedVars>>


(* ------------------------------------------------- projection and layers *)
Min(a, b) == IF a < b THEN a ELSE b

\* x / 2 of an integer x, kept exact: the whole part and whether a half is left
Half(x) == [whole |-> x \div 2, half |-> x % 2 = 1]

\* d3.geoConicEqualArea() before any layer has configured it
DefaultProjection ==
    [center |-> "d3default", scale |-> 155, translate |-> <<Half(960), Half(500)>>]

\* let sharedProjection = null
NoProjection == [center |-> NULL, scale |-> 0, translate |-> <<Half(0), Half(0)>>]
NoViewport == [center |-> NULL, zoom |-> 0, size |-> <<0, 0>>]

\* a _reset that leaves the projection as it finds it
KeepProjection(p, m) == p

\* _reset: .center([lng, lat]).scale(2^zoom * 100).translate([x / 2, y / 2])
ResetProjection(p, m) ==
    [center |-> m.center,
     scale |-> (2 ^ m.zoom) * 100,
     translate |-> <<Half(m.size[1]), Half(m.size[2])>>]

NoMap ==
    [status |-> "none", center |-> NULL, zoom |-> 0, size |-> <<0, 0>>,
     layers |-> {}]

BlankLayer ==
    [kind |-> "none", data |-> << >>, map |-> FALSE, el |-> FALSE,
     inDom |-> FALSE, subs |-> {}, tooltips |-> {}, shown |-> {},
     onRemoves |-> 0, staleRemove |-> FALSE,
     rendered |-> NoProjection, renderedAt |-> NoViewport,
     circles |-> {}, hidden |-> {}, placed |-> {}, reshown |-> {},
     discs |-> {}]

\* new D3GeoJSONLayer / D3PointLayer / D3HeatmapLayer (initialize)
NewLayer(kind, data) == [BlankLayer EXCEPT !.kind = kind, !.data = data]

\* the events a layer's onAdd subscribes _reset to
SubscribedEvents(kind) == Events

\* onAdd, up to the initial _reset: this._map, the drawing surface appended
\* to the pane, the four map.on calls
OnAdd(l) ==
    [l EXCEPT !.map = TRUE, !.el = TRUE, !.inDom = TRUE,
              !.subs = SubscribedEvents(l.kind)]

\* an onRemove without its four map.off calls
OnRemoveStillSubscribed(l) ==
    [l EXCEPT !.inDom = FALSE, !.shown = @ \ {p[2] : p \in l.tooltips},
              !.onRemoves = Min(2, @ + 1),
              !.rendered = NoProjection, !.renderedAt = NoViewport,
              !.circles = {}, !.hidden = {}, !.placed = {}, !.reshown = {},
              !.discs = {}]

\* onRemove: the four map.off calls, the points layer's tooltips leave the
\* map (their entries in _tooltips stay), then the surface leaves the DOM
\* when it is there (d3 selection.remove and the canvas parentNode test both
\* skip a detached element) and what was drawn on it leaves the screen; the
\* _svg / _canvas reference stays. tooltips holds the entries of _tooltips
\* as <<key, tooltip>>, shown the tooltips that are on the map
OnRemove(l) ==
    [l EXCEPT !.subs = {}, !.inDom = FALSE,
              !.shown = @ \ {p[2] : p \in l.tooltips},
              !.onRemoves = Min(2, @ + 1),
              !.rendered = NoProjection, !.renderedAt = NoViewport,
              !.circles = {}, !.hidden = {}, !.placed = {}, !.reshown = {},
              !.discs = {}]

(* The state the layer operations thread through one task:                 *)
(*   heap   the layer objects          onmap  map._layers                   *)
(*   proj   sharedProjection           sml, hmi, wml  the three references  *)
(*   mi     mapInstance                lmap   the map object                *)
(*   removed, stale  onRemove runs and no-op removeLayer calls of the task  *)
(*   thrown  a TypeError was raised                                         *)
Cur ==
    [heap |-> layers, onmap |-> leafletMap.layers, proj |-> sharedProjection,
     sml |-> savedMarkersLayer, hmi |-> heatmapInstance, wml |-> worldMapLayer,
     mi |-> mapInstance, lmap |-> leafletMap,
     removed |-> 0, stale |-> 0, made |-> "none", thrown |-> FALSE]

Referenced(r) == r.onmap \cup ({r.sml, r.hmi, r.wml} \cap LayerIds)

\* a new object: none of those referenced now, nor of those that were
\* alive when the task began
Alloc(r) ==
    CHOOSE id \in LayerIds \ (Referenced(r)
                                \cup {i \in LayerIds : layers[i] # BlankLayer}) :
        TRUE

\* the viewport a redraw reads: map.getCenter(), getZoom(), getSize()
Viewport(m) == [center |-> m.center, zoom |-> m.zoom, size |-> m.size]

\* the locations and projection centres for which d3's projection gives a
\* null or non-finite point
Singular == {<<"c1", "l2">>}

\* projected && isFinite(projected[0]) && isFinite(projected[1])
FiniteProjection(proj, loc) == <<proj.center, loc>> \notin Singular

\* a circle with a finite projection whose display style is left as it was
DisplayKept(wasHidden) == wasHidden

\* circle.attr('cx', x).attr('cy', y).style('display', null)
DisplayReset(wasHidden) == FALSE

\* D3PointLayer._render: a circle is appended for every datum without one,
\* then each circle is hidden when its projection is not finite, placed and
\* shown when it is; reshown notes the circles a pass has made visible again
RenderPoints(l, proj) ==
    LET all == 1 .. Len(l.data)
        finite == {i \in all : FiniteProjection(proj, l.data[i])}
    IN [l EXCEPT !.circles = all,
                 !.hidden = {i \in all : IF i \in finite
                                          THEN DisplayReset(i \in l.hidden)
                                          ELSE TRUE},
                 !.placed = finite,
                 !.reshown = @ \cup {i \in finite \cap l.hidden :
                                          ~DisplayReset(i \in l.hidden)}]

\* D3HeatmapLayer._render: the canvas is cleared, then a disc is drawn for
\* every point whose projection is finite
RenderHeat(l, proj) ==
    [l EXCEPT !.discs = {i \in 1 .. Len(l.data) :
                            FiniteProjection(proj, l.data[i])}]

\* _render reads this._projection, the shared projection object; renderedAt
\* notes the viewport the map had at that moment
RenderLayer(r, id) ==
    LET l == r.heap[id]
        drawn == IF l.kind = "points" THEN RenderPoints(l, r.proj)
                 ELSE IF l.kind = "heat" THEN RenderHeat(l, r.proj)
                 ELSE l
    IN [r EXCEPT !.heap[id] = [drawn EXCEPT !.rendered = r.proj,
                                            !.renderedAt = Viewport(r.lmap)]]

\* _reset of one layer
ResetLayer(r, id) ==
    IF ~r.heap[id].map \/ ~r.heap[id].el THEN r
    ELSE RenderLayer([r EXCEPT !.proj = ResetProjection(r.proj, r.lmap)], id)

\* Leaflet map.addLayer via layer.addTo(map): a null map raises a TypeError,
\* otherwise the layer joins map._layers and its onAdd runs
AddTo(r, id) ==
    IF r.mi = NULL THEN [r EXCEPT !.thrown = TRUE]
    ELSE ResetLayer([r EXCEPT !.onmap = @ \cup {id}, !.heap[id] = OnAdd(@)], id)

\* Leaflet map.removeLayer: a layer that is not in map._layers is left
\* alone; otherwise onRemove runs, the layer leaves map._layers and its
\* _map is cleared
RemoveLayer(r, id) ==
    IF id \notin r.onmap
    THEN [r EXCEPT !.heap[id].staleRemove = TRUE, !.stale = Min(3, @ + 1)]
    ELSE [r EXCEPT !.heap[id] = [OnRemove(@) EXCEPT !.map = FALSE],
                   !.onmap = @ \ {id},
                   !.removed = @ + 1]

RECURSIVE ResetAll(_, _)
ResetAll(r, ids) ==
    IF ids = {} THEN r
    ELSE LET id == CHOOSE i \in ids : TRUE
         IN ResetAll(ResetLayer(r, id), ids \ {id})

\* map.fire(ev): every handler subscribed to ev runs
FireEvent(r, ev) == ResetAll(r, {id \in LayerIds : ev \in r.heap[id].subs})

RECURSIVE FireEvents(_, _)
FireEvents(r, evs) ==
    IF evs = << >> THEN r ELSE FireEvents(FireEvent(r, Head(evs)), Tail(evs))

RECURSIVE RemoveAll(_, _)
RemoveAll(r, ids) ==
    IF ids = {} THEN r
    ELSE LET id == CHOOSE i \in ids : TRUE
         IN RemoveAll(RemoveLayer(r, id), ids \ {id})


\* objects nothing refers to any more are dropped
Collect(r) ==
    [id \in LayerIds |-> IF id \in Referenced(r) THEN r.heap[id] ELSE BlankLayer]

(* ------------------------------------------------------ display (MapTab) *)
\* if (!sharedProjection) sharedProjection = d3.geoConicEqualArea()
EnsureProjection(r) ==
    [r EXCEPT !.proj = IF @ = NoProjection THEN DefaultProjection ELSE @]

\* displayPoints: remove the current points layer, build a D3PointLayer
\* from savedLocations, store it in savedMarkersLayer, add it to the map
DisplayPoints(r, locs) ==
    LET r1 == IF r.sml # NULL THEN RemoveLayer(r, r.sml) ELSE r
        r2 == EnsureProjection(r1)
        id == Alloc(r2)
        r3 == [r2 EXCEPT !.heap[id] = NewLayer("points", locs),
                         !.sml = id, !.made = "point"]
    IN AddTo(r3, id)

\* displayHeatmap: the same for heatmapInstance and D3HeatmapLayer
DisplayHeatmap(r, locs) ==
    LET r1 == IF r.hmi # NULL THEN RemoveLayer(r, r.hmi) ELSE r
        r2 == EnsureProjection(r1)
        id == Alloc(r2)
        r3 == [r2 EXCEPT !.heap[id] = NewLayer("heat", locs),
                         !.hmi = id, !.made = "heatmap"]
    IN AddTo(r3, id)

\* an early return that tests the map alone
DisplaySkippedWithoutMap(mi, locs) == mi = NULL

\* the early return of displaySavedLocations
DisplaySkipped(mi, locs) == mi = NULL \/ Len(locs) = 0

\* a displaySavedLocations that clears nothing before it draws
ClearNothing(r) == r

\* a displaySavedLocations that clears the points layer alone
ClearPointsOnly(r) == IF r.sml # NULL THEN RemoveLayer(r, r.sml) ELSE r

\* the layers displaySavedLocations clears before it draws
ClearExisting(r) ==
    LET r1 == IF r.sml # NULL THEN RemoveLayer(r, r.sml) ELSE r
    IN IF r1.hmi # NULL THEN RemoveLayer(r1, r1.hmi) ELSE r1

DisplaySavedLocations(r, mode, locs) ==
    LET r0 == [r EXCEPT !.removed = 0, !.stale = 0, !.made = "none"]
    IN IF DisplaySkipped(r0.mi, locs) THEN r0
       ELSE IF mode = "point" THEN DisplayPoints(ClearExisting(r0), locs)
            ELSE DisplayHeatmap(ClearExisting(r0), locs)

\* what the last displaySavedLocations call of a task was given and did
DisplayRecord(r, mode, locs) ==
    [len |-> Len(locs), mode |-> mode, removed |-> r.removed,
     stale |-> r.stale, made |-> r.made, thrown |-> r.thrown]

\* no displaySavedLocations call so far
NoDisplay ==
    [len |-> 0, mode |-> "none", removed |-> 0, stale |-> 0, made |-> "none",
     thrown |-> FALSE]

Commit(r) ==
    /\ savedMarkersLayer' = r.sml
    /\ heatmapInstance' = r.hmi
    /\ worldMapLayer' = r.wml
    /\ sharedProjection' = r.proj
    /\ leafletMap' = [r.lmap EXCEPT !.layers = r.onmap]
    /\ layers' = Collect(r)

(* ------------------------------------------------------------- dataStore *)
\* doc is what response.json() gave the call (const data)
IdleCall ==
    [pc |-> "idle", fetches |-> 0, failure |-> NoFailure, rejected |-> FALSE,
     doc |-> NoFeatures]

\* err.message of what the try block raised
Message(f) ==
    CASE f.kind = "http" -> "HTTP error! status: " \o ToString(f.status)
      [] f.kind = "network" -> "Failed to fetch"
      [] f.kind = "syntax" -> "Unexpected token"

\* loadSavedLocations up to its first await: the flags, then the one fetch
StartCall(c) ==
    /\ loading' = TRUE
    /\ error' = NULL
    /\ calls' = [calls EXCEPT ![c].pc = "fetch", ![c].fetches = @ + 1]

\* data.features || []
FeaturesOf(doc) == IF doc.hasFeatures THEN doc.features ELSE << >>

\* the catch block without the finally block: loading stays set
CatchWithoutFinally(c, f) ==
    /\ error' = Message(f)
    /\ loading' = loading
    /\ calls' = [calls EXCEPT ![c].pc = "done", ![c].failure = f,
                              ![c].rejected = FALSE]
    /\ UNCHANGED <<savedLocations, storeMapInstance, selectedFeature>>

\* a catch block that also empties the list
CatchResetsLocations(c, f) ==
    /\ error' = Message(f)
    /\ loading' = FALSE
    /\ calls' = [calls EXCEPT ![c].pc = "done", ![c].failure = f,
                              ![c].rejected = FALSE]
    /\ savedLocations' = << >>
    /\ UNCHANGED <<storeMapInstance, selectedFeature>>

\* the catch and finally blocks: the call settles, and its promise is
\* fulfilled since the catch block raises nothing
CatchFailure(c, f) ==
    /\ error' = Message(f)
    /\ loading' = FALSE
    /\ calls' = [calls EXCEPT ![c].pc = "done", ![c].failure = f,
                              ![c].rejected = FALSE]
    /\ UNCHANGED <<savedLocations, storeMapInstance, selectedFeature>>

\* watch(() => dataStore.savedLocations, displaySavedLocations, {deep: true}):
\* the watcher lives from setup until the component is unmounted
WatcherActive == lifecycle # "unmounted"

(* MapTab.loadSavedLocations after its await: displaySavedLocations().      *)
(* A settled store call runs the watcher job first when savedLocations was *)
(* assigned, then this continuation when the call is the component's own.  *)
AfterStoreCall(c, assigned, locs) ==
    LET r0 == Cur
        r1 == IF assigned /\ WatcherActive
              THEN DisplaySavedLocations(r0, displayMode, locs) ELSE r0
        r2 == IF c = CompCall
              THEN DisplaySavedLocations(r1, displayMode, locs) ELSE r1
    IN /\ Commit(r2)
       /\ lastDisplay' =
            IF c = CompCall \/ (assigned /\ WatcherActive)
            THEN DisplayRecord(r2, displayMode, locs) ELSE lastDisplay
       /\ loadTask' = IF c = CompCall THEN "done" ELSE loadTask

\* setSelectedFeature(feature), the store's exported setter
SetSelectedFeature(feature) ==
    /\ feature # selectedFeature
    /\ selectedFeature' = feature
    /\ UNCHANGED <<savedLocations, loading, error, storeMapInstance, calls,
                   envVars, compVars, layerVars, initVars, resizeVars, obs,
                   lastDisplay>>
    /\ UNCHANGED derivedVars

\* a store call made by another instance of the component
ExternalLoad(c) ==
    /\ c # CompCall
    /\ calls[c].pc = "idle"
    /\ StartCall(c)
    /\ UNCHANGED <<savedLocations, storeMapInstance, selectedFeature, envVars, compVars,
                   layerVars, initVars, resizeVars, obs, lastDisplay>>
    /\ UNCHANGED derivedVars

\* fetch rejects
StoreFetchRejected(c) ==
    /\ calls[c].pc = "fetch"
    /\ CatchFailure(c, FetchRejected)
    /\ AfterStoreCall(c, FALSE, savedLocations)
    /\ UNCHANGED <<envVars, compVars, attempts, retryTimer, resizeVars, obs>>
    /\ UNCHANGED derivedVars

\* fetch resolves with a response that is not ok
StoreFetchNotOk(c, status) ==
    /\ calls[c].pc = "fetch"
    /\ CatchFailure(c, HttpError(status))
    /\ AfterStoreCall(c, FALSE, savedLocations)
    /\ UNCHANGED <<envVars, compVars, attempts, retryTimer, resizeVars, obs>>
    /\ UNCHANGED derivedVars

\* fetch resolves with an ok response: response.json() is awaited
StoreFetchOk(c) ==
    /\ calls[c].pc = "fetch"
    /\ calls' = [calls EXCEPT ![c].pc = "json"]
    /\ UNCHANGED <<savedLocations, loading, error, storeMapInstance, selectedFeature, envVars,
                   compVars, layerVars, initVars, resizeVars, obs, lastDisplay>>
    /\ UNCHANGED derivedVars

\* response.json() rejects
StoreJsonFailed(c) ==
    /\ calls[c].pc = "json"
    /\ CatchFailure(c, ParseError)
    /\ AfterStoreCall(c, FALSE, savedLocations)
    /\ UNCHANGED <<envVars, compVars, attempts, retryTimer, resizeVars, obs>>
    /\ UNCHANGED derivedVars

\* response.json() resolves with doc
StoreJsonOk(c, doc) ==
    /\ calls[c].pc = "json"
    /\ savedLocations' = FeaturesOf(doc)
    /\ loading' = FALSE
    /\ calls' = [calls EXCEPT ![c].pc = "done", ![c].doc = doc]
    /\ AfterStoreCall(c, TRUE, FeaturesOf(doc))
    /\ UNCHANGED <<error, storeMapInstance, selectedFeature, envVars, compVars, attempts,
                   retryTimer, resizeVars, obs>>
    /\ UNCHANGED derivedVars


(* ------------------------------------------------- createMap and initMap *)
\* createMap giving up only when both dimensions are zero
ContainerNotEmpty == containerRef /\ ~(rectW = 0 /\ rectH = 0)

\* createMap's two early returns: no container element, or a zero dimension
ContainerReady == containerRef /\ ~(rectW = 0 \/ rectH = 0)

\* the guard of tryCreateMap one attempt late
AttemptsOverrun == attempts > maxAttempts

\* if (attempts >= maxAttempts) return
AttemptsExhausted == attempts >= maxAttempts

\* L.map(container, {center: mapView.center, zoom: mapView.zoom - 1, ...})
CreatedMap ==
    [status |-> "live", center |-> mapViewCenter, zoom |-> mapViewZoom - 1,
     size |-> <<rectW, rectH>>, layers |-> {}]

\* does a failed createMap schedule setTimeout(tryCreateMap, 100)
RetryOnFailure == TRUE

(* tryCreateMap. built: L.map and the pane set-up raised nothing (the try  *)
(* block of createMap). A success marks the map ready, emits 'map-ready'   *)
(* (HomeView hands the map to dataStore.setMapInstance) and starts the     *)
(* 500 ms timer; a failure starts the 100 ms retry timer.                  *)
TryCreateMap(built) ==
    IF AttemptsExhausted
    THEN /\ retryTimer' = FALSE
         /\ UNCHANGED <<attempts, loadTask, mapInstance, isMapReady,
                        leafletMap, storeMapInstance, selectedFeature, obs>>
    ELSE /\ attempts' = attempts + 1
         /\ IF ContainerReady /\ built
            THEN /\ mapInstance' = "map"
                 /\ leafletMap' = CreatedMap
                 /\ isMapReady' = TRUE
                 /\ storeMapInstance' = "map"
                 /\ loadTask' = "timer"
                 /\ retryTimer' = FALSE
                 /\ obs' = [obs EXCEPT !.createCalls = @ + 1,
                                       !.emitted = @ + 1,
                                       !.readyRect = <<containerRef, rectW, rectH>>,
                                       !.late = IF lifecycle = "unmounted"
                                                THEN @ \cup {"retry"} ELSE @]
            ELSE /\ retryTimer' = RetryOnFailure
                 /\ obs' = [obs EXCEPT !.createCalls = @ + 1,
                                       !.createFails = @ + 1,
                                       !.retries = IF RetryOnFailure THEN @ + 1 ELSE @,
                                       !.late = IF lifecycle = "unmounted"
                                                THEN @ \cup {"retry"} ELSE @]
                 /\ UNCHANGED <<loadTask, mapInstance, isMapReady, leafletMap,
                                storeMapInstance, selectedFeature>>

\* setupResizeObserver: nothing without a container or window.ResizeObserver
SetupResizeObserver(supported) ==
    resizeObserver' = IF containerRef /\ supported THEN "observing" ELSE NULL

\* onMounted -> nextTick: initMap() makes the first attempt at once, then
\* setupResizeObserver()
Mounted(built, supported) ==
    /\ lifecycle = "mounting"
    /\ lifecycle' = "mounted"
    /\ TryCreateMap(built)
    /\ SetupResizeObserver(supported)
    /\ UNCHANGED <<savedLocations, selectedFeature, loading, error, calls, containerRef, rectW,
                   rectH, displayMode, savedMarkersLayer, heatmapInstance,
                   worldMapLayer, sharedProjection, layers, resizeTimeout,
                   resizeTimers, invalidateTimers, lastDisplay>>
    /\ UNCHANGED derivedVars

\* the 100 ms retry timer fires
RetryTimerFire(built) ==
    /\ retryTimer
    /\ TryCreateMap(built)
    /\ UNCHANGED <<savedLocations, selectedFeature, loading, error, calls, envVars, displayMode,
                   savedMarkersLayer, heatmapInstance, worldMapLayer,
                   sharedProjection, layers, resizeVars, lastDisplay>>
    /\ UNCHANGED derivedVars

\* the page lays the container out anew
ContainerResize(w, h) ==
    /\ lifecycle = "mounted"
    /\ <<w, h>> # <<rectW, rectH>>
    /\ rectW' = w
    /\ rectH' = h
    /\ UNCHANGED <<storeVars, lifecycle, containerRef, compVars, layerVars,
                   initVars, resizeVars, obs, lastDisplay>>
    /\ UNCHANGED derivedVars

(* ------------------------------------------------ loadWorldMap, the timer *)
\* a timer callback that starts both loads at once
StartsBothLoads == FALSE

\* await loadWorldMap() comes before loadSavedLocations() is called
AwaitsWorldMap == TRUE

\* the 500 ms timer fires: loadWorldMap() issues its fetch
LoadTimerFire ==
    /\ loadTask = "timer"
    /\ loadTask' = "worldFetch"
    /\ obs' = [obs EXCEPT !.late = IF lifecycle = "unmounted"
                                   THEN @ \cup {"load"} ELSE @]
    /\ IF AwaitsWorldMap THEN UNCHANGED <<loading, error, calls>>
       ELSE StartCall(CompCall)
    /\ UNCHANGED <<savedLocations, storeMapInstance, selectedFeature, envVars, compVars,
                   layerVars, attempts, retryTimer, resizeVars, lastDisplay>>
    /\ UNCHANGED derivedVars

\* a loadWorldMap whose fetch rejection is not caught
WorldRejectionEscapes(outcome) == outcome = "rejected"

\* does a failure of this kind leave loadWorldMap as a rejection
WorldFailureEscapes(outcome) == FALSE

\* the body of loadWorldMap after a parsed document: drop the old world
\* layer, build a D3GeoJSONLayer, store it in worldMapLayer, add it
AttachWorldLayer(r) ==
    IF r.wml # NULL /\ r.mi = NULL THEN [r EXCEPT !.thrown = TRUE]
    ELSE LET r1 == IF r.wml # NULL THEN RemoveLayer(r, r.wml) ELSE r
             r2 == EnsureProjection(r1)
             id == Alloc(r2)
             r3 == [r2 EXCEPT !.heap[id] = NewLayer("world", <<"countries">>),
                              !.wml = id]
         IN AddTo(r3, id)

\* loadWorldMap settles with outcome; await loadSavedLocations() follows in
\* the same task unless the failure escaped
WorldSettled(outcome) ==
    /\ obs' = [obs EXCEPT !.world = outcome,
                          !.escaped = WorldFailureEscapes(outcome)]
    /\ IF WorldFailureEscapes(outcome)
       THEN /\ loadTask' = "aborted"
            /\ UNCHANGED <<loading, error, calls>>
       ELSE /\ loadTask' = "store"
            /\ StartCall(CompCall)
    /\ UNCHANGED <<savedLocations, storeMapInstance, selectedFeature, envVars, compVars,
                   attempts, retryTimer, resizeVars, lastDisplay>>

WorldFetchRejected ==
    /\ loadTask = "worldFetch"
    /\ WorldSettled("rejected")
    /\ UNCHANGED layerVars
    /\ UNCHANGED derivedVars

WorldFetchNotOk ==
    /\ loadTask = "worldFetch"
    /\ WorldSettled("notok")
    /\ UNCHANGED layerVars
    /\ UNCHANGED derivedVars

WorldFetchOk ==
    /\ loadTask = "worldFetch"
    /\ loadTask' = "worldJson"
    /\ UNCHANGED <<storeVars, envVars, compVars, layerVars, attempts,
                   retryTimer, resizeVars, obs, lastDisplay>>
    /\ UNCHANGED derivedVars

WorldJsonFailed ==
    /\ loadTask = "worldJson"
    /\ WorldSettled("badjson")
    /\ UNCHANGED layerVars
    /\ UNCHANGED derivedVars

WorldJsonOk ==
    /\ loadTask = "worldJson"
    /\ LET r == AttachWorldLayer(Cur)
       IN /\ Commit(r)
          /\ WorldSettled(IF r.thrown THEN "addthrew" ELSE "attached")
    /\ UNCHANGED derivedVars

(* ------------------------------------------------------------ user, host *)
\* a click on POINT or HEATMAP
ToggleDisplayMode(mode) ==
    /\ lifecycle = "mounted"
    /\ displayMode' = mode
    /\ LET r == DisplaySavedLocations(Cur, mode, savedLocations)
       IN /\ Commit(r)
          /\ lastDisplay' = DisplayRecord(r, mode, savedLocations)
    /\ UNCHANGED <<storeVars, envVars, mapInstance, isMapReady, initVars,
                   resizeVars, obs>>
    /\ UNCHANGED derivedVars

\* the host map changes its view (map.setView without animation): 'zoom'
\* when the zoom changed, then 'move', then 'viewreset'
SetView(c, z) ==
    /\ leafletMap.status = "live"
    /\ <<c, z>> # <<leafletMap.center, leafletMap.zoom>>
    /\ LET r0 == [Cur EXCEPT !.lmap.center = c, !.lmap.zoom = z]
           evs == IF z # leafletMap.zoom THEN <<"zoom", "move", "viewreset">>
                  ELSE <<"move", "viewreset">>
       IN Commit(FireEvents(r0, evs))
    /\ UNCHANGED <<storeVars, envVars, compVars, initVars, resizeVars, obs,
                   lastDisplay>>
    /\ UNCHANGED derivedVars

\* the L.tooltip objects alive at once
TooltipIds == {"tip1", "tip2", "tip3"}

\* [lng, lat] = location.geometry.coordinates
Coordinates(loc) == IF loc = "l1" THEN <<121, 25>> ELSE <<139, 35>>

\* const tooltipId = `${data.lng}_${data.lat}`
tooltipId(loc) == Coordinates(loc)

\* the visible circles of an attached points layer take the mouse
Hoverable(id, loc) ==
    /\ id \in leafletMap.layers
    /\ layers[id].kind = "points"
    /\ layers[id].inDom
    /\ \E i \in layers[id].circles \ layers[id].hidden :
          layers[id].data[i] = loc

\* a _showTooltip that leaves the tooltip of the key on the map
KeepOldTooltip(shown, old) == shown

\* if (this._tooltips[tooltipId]) map.removeLayer(this._tooltips[tooltipId])
RemoveOldTooltip(shown, old) == shown \ old

\* mouseenter on a circle: _showTooltip returns when the point does not
\* project, else it takes the key's tooltip off the map, adds a new
\* L.tooltip to the map and records it under the key
ShowTooltip(id, loc) ==
    /\ Hoverable(id, loc)
    /\ LET l == layers[id]
           key == tooltipId(loc)
           entry == {p \in l.tooltips : p[1] = key}
           alive == l.shown \cup {p[2] : p \in l.tooltips}
       IN /\ TooltipIds \ alive # {}
          /\ IF ~FiniteProjection(sharedProjection, loc)
             THEN UNCHANGED layers
             ELSE LET tip == CHOOSE t \in TooltipIds \ alive : TRUE
                  IN layers' =
                       [layers EXCEPT
                          ![id].shown =
                              RemoveOldTooltip(@, {p[2] : p \in entry})
                                  \cup {tip},
                          ![id].tooltips = (@ \ entry) \cup {<<key, tip>>}]
    /\ UNCHANGED <<storeVars, envVars, compVars, savedMarkersLayer,
                   heatmapInstance, worldMapLayer, sharedProjection, leafletMap,
                   initVars, resizeVars, obs, lastDisplay>>
    /\ UNCHANGED derivedVars

\* mouseleave: _hideTooltip takes the key's tooltip off the map and deletes
\* its entry
HideTooltip(id, loc) ==
    /\ Hoverable(id, loc)
    /\ LET l == layers[id]
           entry == {p \in l.tooltips : p[1] = tooltipId(loc)}
       IN /\ entry # {}
          /\ layers' = [layers EXCEPT
                          ![id].shown = @ \ {p[2] : p \in entry},
                          ![id].tooltips = @ \ entry]
    /\ UNCHANGED <<storeVars, envVars, compVars, savedMarkersLayer,
                   heatmapInstance, worldMapLayer, sharedProjection, leafletMap,
                   initVars, resizeVars, obs, lastDisplay>>
    /\ UNCHANGED derivedVars

(* ---------------------------------------------------------------- resize *)
NewTimer == CHOOSE t \in TimerIds \ (resizeTimers \cup {resizeTimeout}) : TRUE

\* an observer callback that clears no timer
ClearNone(timers, t) == timers

\* clearTimeout(resizeTimeout) in the observer callback
ClearPending(timers, t) == timers \ {t}

\* the ResizeObserver callback
ResizeNotify ==
    /\ resizeObserver = "observing"
    /\ resizeTimers # {} => obs.burst < MaxBurst
    /\ LET t == NewTimer
       IN /\ resizeTimeout' = t
          /\ resizeTimers' =
               (IF resizeTimeout # NULL THEN ClearPending(resizeTimers, resizeTimeout)
                ELSE resizeTimers) \cup {t}
    /\ obs' = [obs EXCEPT !.burst = IF resizeTimers = {} THEN 1 ELSE @ + 1,
                          !.requests = IF resizeTimers = {} THEN 0 ELSE @]
    /\ UNCHANGED <<storeVars, envVars, compVars, layerVars, initVars,
                   resizeObserver, invalidateTimers, lastDisplay>>
    /\ UNCHANGED derivedVars

\* the 200 ms timer fires: invalidateSize() starts the 100 ms timer when
\* there is a map. A 100 ms timer started earlier is due first.
ResizeTimerFire(t) ==
    /\ t \in resizeTimers
    /\ invalidateTimers = 0
    /\ resizeTimers' = resizeTimers \ {t}
    /\ invalidateTimers' = IF mapInstance # NULL THEN invalidateTimers + 1
                           ELSE invalidateTimers
    /\ obs' = [obs EXCEPT !.requests = Min(2, @ + 1),
                          !.late = IF lifecycle = "unmounted"
                                   THEN @ \cup {"resize"} ELSE @]
    /\ UNCHANGED <<storeVars, envVars, compVars, layerVars, initVars,
                   resizeObserver, resizeTimeout, lastDisplay>>
    /\ UNCHANGED derivedVars

\* Math.round(x / 2)
RoundHalf(x) == (x + 1) \div 2

(* the 100 ms timer fires: mapInstance.invalidateSize(). On null this is a *)
(* TypeError nothing catches. Leaflet reads the container's size anew and  *)
(* fires 'move' and 'resize' when the rounded half sizes differ.           *)
InvalidateTimerFire ==
    /\ invalidateTimers > 0
    /\ invalidateTimers' = invalidateTimers - 1
    /\ IF mapInstance = NULL
       THEN /\ obs' = [obs EXCEPT !.uncaught = TRUE,
                                  !.late = IF lifecycle = "unmounted"
                                           THEN @ \cup {"invalidate"} ELSE @]
            /\ UNCHANGED layerVars
       ELSE /\ LET old == leafletMap.size
                   new == <<rectW, rectH>>
                   r0 == [Cur EXCEPT !.lmap.size = new]
                   shifted == \/ RoundHalf(old[1]) # RoundHalf(new[1])
                              \/ RoundHalf(old[2]) # RoundHalf(new[2])
               IN Commit(IF shifted THEN FireEvents(r0, <<"move", "resize">>)
                         ELSE r0)
            /\ UNCHANGED obs
    /\ UNCHANGED <<storeVars, envVars, compVars, initVars, resizeObserver,
                   resizeTimeout, resizeTimers, lastDisplay>>
    /\ UNCHANGED derivedVars

(* ------------------------------------------------------------- unmounted *)
\* the timers onUnmounted clears: clearTimeout(resizeTimeout) only
TimersClearedOnUnmount == {"resize"}

Unmount ==
    /\ lifecycle = "mounted"
    /\ lifecycle' = "unmounted"
    /\ containerRef' = FALSE
    /\ rectW' = 0
    /\ rectH' = 0
    /\ resizeTimers' = IF "resize" \in TimersClearedOnUnmount /\ resizeTimeout # NULL
                       THEN ClearPending(resizeTimers, resizeTimeout)
                       ELSE resizeTimers
    /\ resizeObserver' = IF resizeObserver # NULL THEN "disconnected" ELSE NULL
    /\ retryTimer' = IF "retry" \in TimersClearedOnUnmount THEN FALSE ELSE retryTimer
    /\ loadTask' = IF "load" \in TimersClearedOnUnmount /\ loadTask = "timer"
                   THEN "cancelled" ELSE loadTask
    /\ invalidateTimers' = IF "invalidate" \in TimersClearedOnUnmount THEN 0
                           ELSE invalidateTimers
    /\ LET r0 == Cur
           r1 == IF mapInstance # NULL
                 THEN [RemoveAll(r0, r0.onmap) EXCEPT !.lmap = [NoMap EXCEPT !.status = "removed"]]
                 ELSE r0
       IN Commit([r1 EXCEPT !.sml = NULL, !.hmi = NULL, !.wml = NULL])
    /\ mapInstance' = NULL
    /\ isMapReady' = FALSE
    /\ UNCHANGED <<storeVars, displayMode, attempts, resizeTimeout, obs,
                   lastDisplay>>
    /\ UNCHANGED derivedVars

(* ------------------------------------------------ heatmap colours (_render) *)
(* A colour string is kept as its form and what it spells:                  *)
(*   "hex"   '#RRGGBB'           "bare"  'RRGGBB'                           *)
(*   "short" '#RGB'              "rgb"   'rgb(r, g, b)'                     *)
(*   "name"  a word such as 'red'                                           *)
(* upper tells upper-case hex digits from lower-case ones in a string that  *)
(* has a letter among its digits.                                           *)
HasLetter(x) == x \div 16 > 9 \/ x % 16 > 9

Hex(r, g, b, upper) ==
    [form |-> "hex", r |-> r, g |-> g, b |-> b,
     upper |-> upper /\ (HasLetter(r) \/ HasLetter(g) \/ HasLetter(b))]

Bare(r, g, b) == [Hex(r, g, b, TRUE) EXCEPT !.form = "bare"]
Short(r, g, b) == [form |-> "short", r |-> r, g |-> g, b |-> b, upper |-> FALSE]
RgbText(r, g, b) == [form |-> "rgb", r |-> r, g |-> g, b |-> b, upper |-> FALSE]
Named == [form |-> "name", r |-> 0, g |-> 0, b |-> 0, upper |-> FALSE]

\* thresholds and intensities are counted in twentieths: 0.95 is 19
Unit == 20

\* the thresholds and colours the gradients of the colour checks are made of
StopKeys == {0, 4, 10, 16, 20}
Palette ==
    {Hex(0, 0, 0, TRUE), Hex(252, 100, 0, TRUE), Hex(255, 255, 255, TRUE),
     Named, RgbText(0, 128, 0)}
Intensities == -1 .. Unit + 1

\* heatmapConfig.gradient
FireGradient ==
    (0 :> Hex(0, 0, 0, TRUE)) @@ (2 :> Hex(64, 0, 0, TRUE))
      @@ (4 :> Hex(128, 0, 0, TRUE)) @@ (6 :> Hex(182, 34, 3, TRUE))
      @@ (8 :> Hex(215, 53, 2, TRUE)) @@ (10 :> Hex(252, 100, 0, TRUE))
      @@ (12 :> Hex(255, 117, 0, TRUE)) @@ (14 :> Hex(255, 165, 0, TRUE))
      @@ (16 :> Hex(255, 215, 0, TRUE)) @@ (18 :> Hex(255, 255, 0, TRUE))
      @@ (19 :> Hex(255, 255, 170, TRUE)) @@ (20 :> Hex(255, 255, 255, TRUE))

NoRgb == [ok |-> FALSE, r |-> 0, g |-> 0, b |-> 0]

\* hexToRgb: /^#?([a-f\d]{2})([a-f\d]{2})([a-f\d]{2})$/i, or null
hexToRgb(c) ==
    IF c.form \in {"hex", "bare"}
    THEN [ok |-> TRUE, r |-> c.r, g |-> c.g, b |-> c.b]
    ELSE NoRgb

\* Math.round of n / d, for n >= 0 and d > 0, in exact arithmetic
Round(n, d) == (2 * n + d) \div (2 * d)

\* rgbToHex: '#' and two lower-case hex digits for each rounded component
rgbToHex(r, g, b) == Hex(r, g, b, FALSE)

\* interpolateColor(color1, color2, factor) with factor = num / den
interpolateColor(color1, color2, num, den) ==
    LET rgb1 == hexToRgb(color1)
        rgb2 == hexToRgb(color2)
    IN IF ~rgb1.ok \/ ~rgb2.ok THEN color1
       ELSE rgbToHex(Round(rgb1.r * den + (rgb2.r - rgb1.r) * num, den),
                     Round(rgb1.g * den + (rgb2.g - rgb1.g) * num, den),
                     Round(rgb1.b * den + (rgb2.b - rgb1.b) * num, den))

\* Object.keys(config.gradient).map(...).sort((a, b) => a.stop - b.stop)
RECURSIVE SortedStops(_, _)
SortedStops(gradient, keys) ==
    IF keys = {} THEN << >>
    ELSE LET k == CHOOSE x \in keys : \A y \in keys : x <= y
         IN <<[stop |-> k, color |-> gradient[k]]>>
              \o SortedStops(gradient, keys \ {k})

\* an interval search that leaves the two ends of each interval out
IntervalColorStrict(stops, intensity) ==
    LET hits == {i \in 1 .. Len(stops) - 1 :
                    intensity > stops[i].stop /\ intensity < stops[i + 1].stop}
    IN IF hits = {} THEN stops[1].color
       ELSE LET i == CHOOSE h \in hits : \A j \in hits : h <= j
            IN interpolateColor(stops[i].color, stops[i + 1].color,
                                intensity - stops[i].stop,
                                stops[i + 1].stop - stops[i].stop)

\* the for loop of getColor and the return that follows it
IntervalColor(stops, intensity) ==
    LET hits == {i \in 1 .. Len(stops) - 1 :
                    intensity >= stops[i].stop /\ intensity <= stops[i + 1].stop}
    IN IF hits = {} THEN stops[1].color
       ELSE LET i == CHOOSE h \in hits : \A j \in hits : h <= j
            IN interpolateColor(stops[i].color, stops[i + 1].color,
                                intensity - stops[i].stop,
                                stops[i + 1].stop - stops[i].stop)

\* getColor(intensity)
getColor(config, intensity) ==
    LET stops == SortedStops(config.gradient, DOMAIN config.gradient)
    IN IF intensity <= 0 THEN stops[1].color
       ELSE IF intensity >= Unit THEN stops[Len(stops)].color
       ELSE IntervalColor(stops, intensity)

\* colorToRgba's fallback when the string has none of the three forms
DefaultFill == [r |-> 255, g |-> 0, b |-> 0, warned |-> TRUE]

\* colorToRgba(colorStr, alpha) without alpha, which it passes on as given:
\* 'rgba(' and 'rgb(' by their digits, '#' by parseInt of the three slices
\* (the third slice of '#RGB' is empty: NaN)
colorToRgba(c) ==
    IF c.form \in {"rgb", "hex"}
    THEN [r |-> c.r, g |-> c.g, b |-> c.b, warned |-> FALSE]
    ELSE DefaultFill

NoDisc ==
    [intensity |-> 0, color |-> Named,
     fill |-> [r |-> 0, g |-> 0, b |-> 0, warned |-> FALSE], drawn |-> FALSE]

\* one pass of the forEach of _render for a point that projects: getColor,
\* then the radial gradient's five colour stops from colorToRgba, then fill
DrawHeatPoint(intensity) ==
    /\ disc' = [intensity |-> intensity,
                color |-> getColor(heatmapConfig, intensity),
                fill |-> colorToRgba(getColor(heatmapConfig, intensity)),
                drawn |-> TRUE]
    /\ UNCHANGED <<storeVars, envVars, compVars, layerVars, initVars,
                   resizeVars, obs, lastDisplay, heatmapConfig, heatData,
                   statistics>>

(* ------------------------------------------- statistics and heat data *)
\* features as a fetched document can hold them, told apart by what
\* properties.location.country_code is
Places == Locs \cup {"l3", "l4", "l5"}

\* loc.properties?.location?.country_code: a code, the empty string, or
\* undefined when the field or one of its parents is missing
country_code(loc) ==
    CASE loc = "l1" -> "TW"
      [] loc = "l2" -> "JP"
      [] loc = "l3" -> "TW"
      [] loc = "l4" -> ""
      [] OTHER -> NULL

\* the code as it is, missing or not
CodeAsIs(loc) == country_code(loc)

\* loc.properties?.location?.country_code || 'Unknown'
CodeOf(loc) ==
    IF country_code(loc) = NULL \/ country_code(loc) = "" THEN "Unknown"
    ELSE country_code(loc)

\* [...new Set(seq)]: the values of seq in the order of their first
\* occurrence
RECURSIVE SpreadSet(_)
SpreadSet(seq) ==
    IF seq = << >> THEN << >>
    ELSE LET n == Len(seq)
             before == SpreadSet(SubSeq(seq, 1, n - 1))
         IN IF \E i \in 1 .. Len(before) : before[i] = seq[n] THEN before
            ELSE Append(before, seq[n])

NoStatistics ==
    [total |-> 0, countries |-> 0, countryList |-> << >>, computed |-> FALSE]

\* the getter of the computed getStatistics
getStatistics(locs) ==
    LET total == Len(locs)
        countries == SpreadSet([i \in 1 .. Len(locs) |-> CodeOf(locs[i])])
    IN [total |-> total, countries |-> Len(countries),
        countryList |-> countries, computed |-> TRUE]

\* dataStore.getStatistics is read
ReadStatistics ==
    /\ statistics' = getStatistics(savedLocations)
    /\ UNCHANGED <<storeVars, envVars, compVars, layerVars, initVars,
                   resizeVars, obs, lastDisplay, heatmapConfig, heatData, disc>>

\* a quotient a / b of two integers, b > 0, kept exact
Quotient(a, b) == [num |-> a, den |-> b]

\* Math.min(1, q)
MinOne(q) == IF q.num > q.den THEN Quotient(1, 1) ELSE q

\* an intensity that counts the index from zero
IntensityFromZero(index, length) == MinOne(Quotient(index, length))

\* Math.min(1, (index + 1) / dataStore.savedLocations.length)
Intensity(index, length) == MinOne(Quotient(index + 1, length))

\* const heatData = dataStore.savedLocations.map((location, index) => ...):
\* the sequence position i is the index i - 1 of the code
HeatData(locs) ==
    [i \in 1 .. Len(locs) |->
        [loc |-> locs[i], intensity |-> Intensity(i - 1, Len(locs))]]

\* displayHeatmap prepares its data
PrepareHeatData ==
    /\ heatData' = HeatData(savedLocations)
    /\ UNCHANGED <<storeVars, envVars, compVars, layerVars, initVars,
                   resizeVars, obs, lastDisplay, heatmapConfig, disc,
                   statistics>>

(* ------------------------------------------------------------------ spec *)
InitObs ==
    [createCalls |-> 0, createFails |-> 0, retries |-> 0,
     readyRect |-> <<FALSE, 0, 0>>,
     emitted |-> 0, world |-> "none", escaped |-> FALSE, uncaught |-> FALSE,
     burst |-> 0, requests |-> 0, late |-> {}]

InitSetup ==
    /\ selectedFeature = NULL
    /\ loading = FALSE
    /\ error = NULL
    /\ storeMapInstance = NULL
    /\ calls = [c \in CallIds |-> IdleCall]
    /\ lifecycle = "mounting"
    /\ containerRef = TRUE
    /\ rectW \in Dims
    /\ rectH \in Dims
    /\ mapInstance = NULL
    /\ isMapReady = FALSE
    /\ displayMode = "heatmap"
    /\ savedMarkersLayer = NULL
    /\ heatmapInstance = NULL
    /\ worldMapLayer = NULL
    /\ sharedProjection = NoProjection
    /\ attempts = 0
    /\ retryTimer = FALSE
    /\ loadTask = "none"
    /\ resizeObserver = NULL
    /\ resizeTimeout = NULL
    /\ resizeTimers = {}
    /\ invalidateTimers = 0
    /\ leafletMap = NoMap
    /\ layers = [id \in LayerIds |-> BlankLayer]
    /\ obs = InitObs
    /\ lastDisplay = NoDisplay

\* const savedLocations = ref([])
InitComponent == savedLocations = << >> /\ InitSetup

Init ==
    /\ InitComponent
    /\ heatmapConfig = [gradient |-> FireGradient]
    /\ heatData = << >>
    /\ disc = NoDisc
    /\ statistics = NoStatistics

\* the component comes up: the attempts of initMap and the container
MountStep ==
    \/ \E built \in BOOLEAN, supported \in BOOLEAN : Mounted(built, supported)
    \/ \E built \in BOOLEAN : RetryTimerFire(built)
    \/ \E w \in Dims, h \in Dims : ContainerResize(w, h)

\* the resize observer and its two timers
ResizeStep ==
    \/ ResizeNotify
    \/ \E t \in TimerIds : ResizeTimerFire(t)
    \/ InvalidateTimerFire

\* the 500 ms timer and loadWorldMap
WorldStep ==
    \/ LoadTimerFire
    \/ WorldFetchRejected
    \/ WorldFetchNotOk
    \/ WorldFetchOk
    \/ WorldJsonFailed
    \/ WorldJsonOk

\* dataStore.loadSavedLocations, for every call in flight
StoreStep ==
    \/ \E c \in CallIds : StoreFetchRejected(c)
    \/ \E c \in CallIds, status \in BadStatuses : StoreFetchNotOk(c, status)
    \/ \E c \in CallIds : StoreFetchOk(c)
    \/ \E c \in CallIds : StoreJsonFailed(c)
    \/ \E c \in CallIds, doc \in Docs : StoreJsonOk(c, doc)

ExternalStep == \E c \in CallIds : ExternalLoad(c)
SelectStep == \E feature \in Locs \cup {NULL} : SetSelectedFeature(feature)
ToggleStep == \E mode \in Modes : ToggleDisplayMode(mode)
ViewStep == \E c \in Centers, z \in Zooms : SetView(c, z)
TooltipStep ==
    \/ \E id \in LayerIds, loc \in Locs : ShowTooltip(id, loc)
    \/ \E id \in LayerIds, loc \in Locs : HideTooltip(id, loc)

Next ==
    \/ MountStep
    \/ ResizeStep
    \/ WorldStep
    \/ StoreStep
    \/ ExternalStep
    \/ ToggleStep
    \/ ViewStep
    \/ TooltipStep
    \/ Unmount

Spec == Init /\ [][Next]_vars

(* The whole of Next is the product of four nearly independent parts: the  *)
(* twenty attempts of initMap, the resize timers, the two fetches and the  *)
(* host map's view. Each specification below keeps the steps that write or *)
(* read what its properties are about.                                     *)

\* coming up, the resize timers and the start of the delayed load
NextMount == MountStep \/ ResizeStep \/ LoadTimerFire \/ Unmount
SpecMount == Init /\ [][NextMount]_vars

\* one attempt at the map, then the loads (also by other instances) and the
\* display mode
NextLoad ==
    \/ \E built \in BOOLEAN, supported \in BOOLEAN : Mounted(built, supported)
    \/ WorldStep
    \/ StoreStep
    \/ ExternalStep
    \/ ToggleStep
    \/ Unmount
SpecLoad == Init /\ [][NextLoad]_vars

\* one attempt at the map, the calls of the store's actions by the
\* component and by others
NextStore ==
    \/ \E built \in BOOLEAN, supported \in BOOLEAN : Mounted(built, supported)
    \/ WorldStep
    \/ StoreStep
    \/ ExternalStep
    \/ SelectStep
    \/ Unmount
SpecStore == Init /\ [][NextStore]_vars

\* one attempt at the map, the component's own load, the display mode and
\* every source of viewport events
NextView ==
    \/ \E built \in BOOLEAN, supported \in BOOLEAN : Mounted(built, supported)
    \/ \E w \in Dims, h \in Dims : ContainerResize(w, h)
    \/ ResizeStep
    \/ WorldStep
    \/ StoreStep
    \/ ToggleStep
    \/ ViewStep
    \/ Unmount
SpecView == Init /\ [][NextView]_vars

\* one attempt at the map, the component's own load, the display mode, the
\* host map's view and the mouse over the points
NextDetach ==
    \/ \E built \in BOOLEAN, supported \in BOOLEAN : Mounted(built, supported)
    \/ WorldStep
    \/ StoreStep
    \/ ToggleStep
    \/ ViewStep
    \/ TooltipStep
    \/ Unmount
SpecDetach == Init /\ [][NextDetach]_vars

\* the colour of a heat point, for the configured gradient and for every
\* gradient of up to MaxStops stops over StopKeys and Palette
Gradients ==
    UNION {[K -> Palette] :
             K \in {S \in SUBSET StopKeys : S # {} /\ Cardinality(S) <= MaxStops}}
InitColor ==
    /\ InitComponent
    /\ rectW = 0
    /\ rectH = 0
    /\ heatmapConfig \in {[gradient |-> g] : g \in Gradients \cup {FireGradient}}
    /\ heatData = << >>
    /\ disc = NoDisc
    /\ statistics = NoStatistics
NextColor == \E intensity \in Intensities : DrawHeatPoint(intensity)
SpecColor == InitColor /\ [][NextColor]_vars

\* the statistics and the heat data of every list of up to MaxFeatures
\* features
RECURSIVE ListsUpTo(_)
ListsUpTo(n) ==
    IF n = 0 THEN {<< >>}
    ELSE LET S == ListsUpTo(n - 1)
         IN S \cup {Append(s, l) : s \in {t \in S : Len(t) = n - 1}, l \in Places}
InitData ==
    /\ InitSetup
    /\ rectW = 0
    /\ rectH = 0
    /\ savedLocations \in ListsUpTo(MaxFeatures)
    /\ heatmapConfig = [gradient |-> FireGradient]
    /\ heatData = << >>
    /\ disc = NoDisc
    /\ statistics = NoStatistics
NextData == ReadStatistics \/ PrepareHeatData
SpecData == InitData /\ [][NextData]_vars


(* =============================================================== claims *)

(* C1: a loadSavedLocations call that fails (fetch rejects, the response   *)
(* is not ok, or the body does not parse) settles in the step its failure  *)
(* arrives: its promise is not rejected, error is the failure's message,   *)
(* loading is false, and the call has issued exactly one fetch. No call    *)
(* ever issues a second fetch.                                             *)
C1_FailureCaught ==
    /\ [](\A c \in CallIds : calls[c].fetches <= 1 /\ ~calls[c].rejected)
    /\ [][\A c \in CallIds :
             (calls[c].pc # "done" /\ calls'[c].pc = "done"
                 /\ calls'[c].failure # NoFailure)
             => /\ error' = Message(calls'[c].failure)
                /\ loading' = FALSE
                /\ calls'[c].fetches = 1
                /\ ~calls'[c].rejected]_vars

\* a call has failed on a 404 while another call was in flight
C1_Witness ==
    \E c \in CallIds, d \in CallIds :
        /\ calls[c].pc = "done"
        /\ calls[c].failure = HttpError(404)
        /\ error = "HTTP error! status: 404"
        /\ ~loading
        /\ calls[d].pc \in {"fetch", "json"}

(* C2: createMap is called at most maxAttempts (20) times. A step in which *)
(* an attempt fails starts exactly one retry timer. Once 20 attempts have  *)
(* failed, no step calls createMap again and no map is created, whatever   *)
(* size the container has by then.                                         *)
C2_BoundedAttempts ==
    /\ [](/\ obs.createCalls <= 20
          /\ obs.retries = obs.createFails
          /\ (obs.createFails = 20 => mapInstance = NULL /\ ~isMapReady))
    /\ [][/\ obs'.createFails # obs.createFails
             => /\ obs'.createFails = obs.createFails + 1
                /\ obs'.retries = obs.retries + 1
                /\ retryTimer'
          /\ obs.createFails = 20
             => /\ obs'.createCalls = obs.createCalls
                /\ mapInstance' = NULL
                /\ leafletMap' = leafletMap]_vars

\* twenty attempts have failed, the last timer has found the guard closed,
\* and the mounted container has a size now
C2_Witness ==
    /\ obs.createFails = 20
    /\ obs.createCalls = 20
    /\ ~retryTimer
    /\ lifecycle = "mounted"
    /\ containerRef /\ rectW > 0 /\ rectH > 0
    /\ mapInstance = NULL

(* C3: isMapReady turns true only in a step whose createMap saw a          *)
(* container element with non-zero width and height; that step creates the *)
(* map and emits 'map-ready' once with it. A step taken while the          *)
(* container is missing or has a zero dimension creates no map and leaves  *)
(* the component uninitialised.                                            *)
C3_ReadyNeedsSize ==
    /\ [](/\ isMapReady => (obs.readyRect[1] /\ obs.readyRect[2] > 0
                               /\ obs.readyRect[3] > 0)
          /\ obs.emitted > 0 => (obs.readyRect[2] > 0 /\ obs.readyRect[3] > 0))
    /\ [][/\ (~isMapReady /\ isMapReady')
             => /\ containerRef /\ rectW > 0 /\ rectH > 0
                /\ mapInstance' = "map"
                /\ storeMapInstance' = "map"
                /\ leafletMap'.status = "live"
                /\ obs'.emitted = obs.emitted + 1
          /\ (mapInstance = NULL /\ (~containerRef \/ rectW = 0 \/ rectH = 0))
             => /\ mapInstance' = NULL
                /\ ~isMapReady'
                /\ obs'.emitted = obs.emitted]_vars

\* the map became ready on a later attempt, after attempts that found the
\* container without a size
C3_Witness ==
    /\ isMapReady
    /\ mapInstance = "map"
    /\ obs.createFails > 0
    /\ obs.emitted = 1
    /\ obs.readyRect[2] > 0 /\ obs.readyRect[3] > 0

(* C4: whatever an attached overlay layer (world, points, heatmap) has     *)
(* drawn was drawn with the projection's center, scale 2^zoom * 100 and    *)
(* translate size / 2 of the viewport the map had at that draw. A layer is *)
(* drawn in the step that attaches it, and a step that fires viewreset,    *)
(* move, zoom or resize redraws every attached layer with the projection   *)
(* of the viewport the map has then.                                       *)
C4_RenderUsesCurrentViewport ==
    /\ [](\A id \in leafletMap.layers :
            LET l == layers[id]
            IN /\ l.rendered # NoProjection
               /\ l.rendered =
                    [center |-> l.renderedAt.center,
                     scale |-> (2 ^ l.renderedAt.zoom) * 100,
                     translate |-> <<Half(l.renderedAt.size[1]),
                                     Half(l.renderedAt.size[2])>>])
    /\ [][\A id \in leafletMap'.layers :
            LET now == [center |-> leafletMap'.center, zoom |-> leafletMap'.zoom,
                        size |-> leafletMap'.size]
                fresh == [center |-> now.center, scale |-> (2 ^ now.zoom) * 100,
                          translate |-> <<Half(now.size[1]), Half(now.size[2])>>]
                fired == /\ leafletMap.status = "live"
                         /\ \/ leafletMap'.center # leafletMap.center
                            \/ leafletMap'.zoom # leafletMap.zoom
                            \/ (leafletMap'.size[1] + 1) \div 2
                                 # (leafletMap.size[1] + 1) \div 2
                            \/ (leafletMap'.size[2] + 1) \div 2
                                 # (leafletMap.size[2] + 1) \div 2
            IN (id \notin leafletMap.layers \/ layers'[id] # layers[id] \/ fired)
               => /\ layers'[id].renderedAt = now
                  /\ layers'[id].rendered = fresh]_vars

\* the world layer and a points layer are attached and were redrawn after
\* the view moved to another center and zoom and the map took a new size
C4_Witness ==
    \E a \in leafletMap.layers, b \in leafletMap.layers :
        /\ layers[a].kind = "world"
        /\ layers[b].kind = "points"
        /\ leafletMap.center # mapViewCenter
        /\ leafletMap.zoom = 1
        /\ leafletMap.size # <<obs.readyRect[2], obs.readyRect[3]>>
        /\ layers[a].renderedAt = [center |-> leafletMap.center, zoom |-> 1,
                                   size |-> leafletMap.size]
        /\ layers[b].rendered = layers[a].rendered

(* C5: once the component is unmounted none of its timers is pending (the  *)
(* 100 ms retry timer, the 500 ms load timer, the 200 ms resize debounce   *)
(* timer, the 100 ms invalidateSize timer), and no callback of a timer     *)
(* started before the teardown has run after it.                           *)
C5_TeardownCancelsTimers ==
    /\ lifecycle = "unmounted"
       => /\ ~retryTimer
          /\ loadTask # "timer"
          /\ resizeTimers = {}
          /\ invalidateTimers = 0
    /\ obs.late = {}

\* after the teardown the load timer has started loadWorldMap and the
\* invalidateSize timer has called invalidateSize on the null mapInstance
C5_Witness ==
    /\ lifecycle = "unmounted"
    /\ obs.late = {"load", "invalidate"}
    /\ obs.uncaught
    /\ loadTask = "worldFetch"

(* C6: a layer that has been detached has no handler subscribed to         *)
(* viewreset, move, zoom or resize, its surface is out of the DOM, none of *)
(* its tooltips is on the map, and its onRemove has run exactly once;      *)
(* running onRemove on it again would give the same layer. No step changes *)
(* a detached layer, except to note a further removeLayer request or to    *)
(* drop the object: neither a second removal nor a viewport event redraws  *)
(* it, and no display has raised an error.                                 *)
C6_DetachIdempotent ==
    /\ [](\A id \in LayerIds :
            LET l == layers[id]
                d == OnRemove(l)
            IN /\ [OnRemove(d) EXCEPT !.onRemoves = d.onRemoves] = d
               /\ (l.el /\ ~l.map)
                  => /\ l.subs = {}
                     /\ ~l.inDom
                     /\ l.shown = {}
                     /\ l.rendered = NoProjection
                     /\ l.onRemoves = 1)
    /\ [](~lastDisplay.thrown)
    /\ [][\A id \in LayerIds :
            (layers[id].el /\ ~layers[id].map)
            => layers'[id] \in {layers[id],
                                [layers[id] EXCEPT !.staleRemove = TRUE],
                                BlankLayer}]_vars

\* a points layer that had a tooltip open has been detached, a second
\* removeLayer has been requested for it, and the view has moved
C6_Witness ==
    \E id \in LayerIds :
        /\ layers[id].kind = "points"
        /\ layers[id].el /\ ~layers[id].map
        /\ layers[id].staleRemove
        /\ layers[id].tooltips # {}
        /\ leafletMap.status = "live"
        /\ leafletMap.center # mapViewCenter
        /\ leafletMap.layers # {}

(* C7 as claimed: a change of display mode with the map ready and a        *)
(* non-empty list removes one layer and issues no removeLayer for a layer  *)
(* that is not attached.                                                   *)
C7_NoRemovalOfDetached ==
    [][(displayMode' # displayMode /\ mapInstance # NULL
            /\ Len(savedLocations) > 0)
       => /\ lastDisplay'.removed <= 1
          /\ lastDisplay'.stale = 0]_vars

(* C7: a change of display mode with the map ready and a non-empty list    *)
(* detaches every points or heatmap layer that was attached, running its   *)
(* onRemove exactly once, and leaves attached exactly one such layer: the  *)
(* new one, of the new mode. No layer's onRemove ever runs twice. The      *)
(* removeLayer requests the step issues for layers already detached are    *)
(* not counted as removals.                                                *)
C7_PreviousLayerRemovedOnce ==
    /\ [](\A id \in LayerIds : layers[id].onRemoves <= 1)
    /\ [][(displayMode' # displayMode /\ mapInstance # NULL
               /\ Len(savedLocations) > 0)
          => LET before == {id \in leafletMap.layers :
                               layers[id].kind \in {"points", "heat"}}
                 after == {id \in leafletMap'.layers :
                              layers'[id].kind \in {"points", "heat"}}
                 new == IF displayMode' = "point" THEN savedMarkersLayer'
                        ELSE heatmapInstance'
             IN /\ Cardinality(before) <= 1
                /\ lastDisplay'.removed = Cardinality(before)
                /\ \A id \in before :
                      /\ id \notin leafletMap'.layers
                      /\ \/ layers'[id] = BlankLayer
                         \/ /\ layers'[id].onRemoves = 1
                            /\ ~layers'[id].inDom
                            /\ layers'[id].subs = {}
                /\ after = {new}
                /\ new \notin before
                /\ layers'[new].kind = (IF displayMode' = "point" THEN "points"
                                        ELSE "heat")
                /\ layers'[new].inDom
                /\ layers'[new].onRemoves = 0]_vars

\* back in point mode after heatmap after point: the last display detached
\* the heatmap layer once and issued two removeLayer requests for the points
\* layer of the first round, long detached
C7_Witness ==
    /\ displayMode = "point"
    /\ lastDisplay.mode = "point"
    /\ lastDisplay.made = "point"
    /\ lastDisplay.removed = 1
    /\ lastDisplay.stale = 2
    /\ savedMarkersLayer \in leafletMap.layers
    /\ heatmapInstance \in LayerIds \ leafletMap.layers

(* C8: when the world-boundaries fetch rejects, answers with a response    *)
(* that is not ok, or its body does not parse, no world layer is attached  *)
(* or referenced, loadWorldMap's promise is not rejected, and the step in  *)
(* which loadWorldMap settles starts the component's loadSavedLocations    *)
(* call.                                                                   *)
C8_WorldFailureNonFatal ==
    /\ [](obs.world \in {"rejected", "notok", "badjson"}
          => /\ worldMapLayer = NULL
             /\ \A id \in LayerIds : layers[id].kind # "world"
             /\ ~obs.escaped
             /\ loadTask \in {"store", "done"}
             /\ calls[CompCall].fetches = 1)
    /\ [][(obs.world = "none"
             /\ obs'.world \in {"rejected", "notok", "badjson"})
          => /\ calls[CompCall].pc = "idle"
             /\ calls'[CompCall].pc = "fetch"
             /\ loading'
             /\ UNCHANGED layerVars]_vars

\* the world fetch answered not ok, and the location load that followed has
\* run to its end and drawn the heatmap
C8_Witness ==
    /\ obs.world = "notok"
    /\ calls[CompCall].pc = "done"
    /\ calls[CompCall].failure = NoFailure
    /\ worldMapLayer = NULL
    /\ heatmapInstance \in leafletMap.layers

(* C9: at most one resize debounce timer is pending, and it is the one     *)
(* resizeTimeout names. A notification leaves pending only the timer it    *)
(* starts, a new one. The timer that fires is the one the last             *)
(* notification started, it leaves none pending, and it makes the one      *)
(* invalidateSize request of its burst.                                    *)
C9_ResizeCoalesced ==
    /\ [](/\ Cardinality(resizeTimers) <= 1
          /\ resizeTimers \subseteq {resizeTimeout}
          /\ obs.requests + Cardinality(resizeTimers) <= 1)
    /\ [][/\ resizeTimeout' # resizeTimeout
             => /\ resizeTimeout' \notin resizeTimers
                /\ resizeTimers' = {resizeTimeout'}
                /\ obs'.requests = 0
          /\ obs'.requests > obs.requests
             => /\ resizeTimers = {resizeTimeout}
                /\ resizeTimers' = {}
                /\ obs'.requests = 1]_vars

\* a burst of two or more notifications has ended in one request
C9_Witness ==
    /\ obs.burst >= 2
    /\ obs.requests = 1
    /\ resizeTimers = {}
    /\ lifecycle = "mounted"
    /\ mapInstance # NULL
    /\ invalidateTimers = 1

(* C10: a displaySavedLocations call made with an empty location list,     *)
(* from toggleDisplayMode, from the savedLocations watcher or after the    *)
(* component's own load, builds no layer, attaches and detaches nothing,   *)
(* leaves every layer reference and the projection as they were, and       *)
(* raises nothing. While the list is empty no step short of the unmount    *)
(* changes a points or heatmap layer or the two references to them.        *)
C10_EmptyListNoOp ==
    /\ [][(lastDisplay' # lastDisplay /\ lastDisplay'.len = 0)
          => /\ lastDisplay'.made = "none"
             /\ lastDisplay'.removed = 0
             /\ lastDisplay'.stale = 0
             /\ ~lastDisplay'.thrown
             /\ UNCHANGED layerVars]_vars
    /\ [][(Len(savedLocations') = 0 /\ lifecycle' = lifecycle)
          => /\ savedMarkersLayer' = savedMarkersLayer
             /\ heatmapInstance' = heatmapInstance
             /\ \A id \in LayerIds :
                   (layers[id].kind \in {"points", "heat"}
                      \/ layers'[id].kind \in {"points", "heat"})
                   => /\ layers'[id] = layers[id]
                      /\ id \in leafletMap'.layers <=> id \in leafletMap.layers]_vars

\* the map is ready with a heatmap on it, and the last display, in point
\* mode, was given the empty list
C10_Witness ==
    /\ mapInstance # NULL
    /\ lastDisplay.mode = "point"
    /\ lastDisplay.len = 0
    /\ lastDisplay.made = "none"
    /\ Len(savedLocations) = 0
    /\ heatmapInstance \in leafletMap.layers

(* C11: for a gradient whose colours are six-digit hex strings, the colour *)
(* getColor returns for an intensity equal to the threshold of a stop has  *)
(* the red, green and blue components of that stop's colour; for an        *)
(* intensity <= 0 getColor returns the first stop's colour and for an      *)
(* intensity >= 1 the last stop's colour.                                  *)
C11_ExactStopColour ==
    disc.drawn
    => LET g == heatmapConfig.gradient
           lowest == CHOOSE k \in DOMAIN g : \A j \in DOMAIN g : k <= j
           highest == CHOOSE k \in DOMAIN g : \A j \in DOMAIN g : k >= j
       IN /\ (disc.intensity \in DOMAIN g
                /\ \A k \in DOMAIN g : g[k].form = "hex")
             => /\ disc.color.form = "hex"
                /\ disc.color.r = g[disc.intensity].r
                /\ disc.color.g = g[disc.intensity].g
                /\ disc.color.b = g[disc.intensity].b
          /\ disc.intensity <= 0 => disc.color = g[lowest]
          /\ disc.intensity >= 20 => disc.color = g[highest]

\* the configured gradient at 0.3: the colour of the stop, spelled in
\* lower case where the configuration spells it in upper case
C11_Witness ==
    /\ heatmapConfig.gradient = FireGradient
    /\ disc.drawn
    /\ disc.intensity = 6
    /\ disc.color = [form |-> "hex", r |-> 182, g |-> 34, b |-> 3, upper |-> FALSE]
    /\ disc.color # FireGradient[6]

C14_DrawnIffFinite ==
    [][\A id \in LayerIds :
          LET l == layers'[id]
              finite(i) == <<l.rendered.center, l.data[i]>> \notin Singular
          IN (id \in leafletMap'.layers /\ l.rendered # NoProjection)
             => /\ l.kind = "points"
                   => \A i \in 1 .. Len(l.data) :
                         /\ (i \in l.circles /\ i \notin l.hidden /\ i \in l.placed)
                               <=> finite(i)
                         /\ (/\ id \in leafletMap.layers
                             /\ layers[id].kind = "points"
                             /\ i \in layers[id].hidden
                             /\ finite(i))
                            => i \in l.circles \ l.hidden
                /\ l.kind = "heat"
                   => \A i \in 1 .. Len(l.data) : i \in l.discs <=> finite(i)]_vars

\* a circle that an earlier redraw hid is visible again at the map's centre
C14_Witness ==
    \E id \in leafletMap.layers :
        /\ layers[id].kind = "points"
        /\ layers[id].data = <<"l2">>
        /\ layers[id].rendered.center = "c0"
        /\ layers[id].reshown = {1}
        /\ layers[id].hidden = {}
        /\ layers[id].placed = {1}

(* C15: once getStatistics has been read, total is the number of           *)
(* locations, countries is the number of distinct country codes among      *)
(* them, every location with a missing or empty code counting as the one   *)
(* code 'Unknown'; countries is the length of countryList and is at most   *)
(* total.                                                                  *)
C15_StatisticsCount ==
    statistics.computed
    => LET code(l) == IF country_code(l) \in {NULL, ""} THEN "Unknown"
                      ELSE country_code(l)
           codes == {code(savedLocations[i]) : i \in 1 .. Len(savedLocations)}
       IN /\ statistics.total = Len(savedLocations)
          /\ statistics.countries = Cardinality(codes)
          /\ statistics.countries = Len(statistics.countryList)
          /\ statistics.countries <= statistics.total

\* three locations: an empty code, Taiwan, no code at all
C15_Witness ==
    /\ savedLocations = <<"l4", "l1", "l5">>
    /\ statistics.computed
    /\ statistics.total = 3
    /\ statistics.countries = 2
    /\ statistics.countryList = <<"Unknown", "TW">>

(* C16: for a list of n >= 1 locations the heat data holds, at (0-based)   *)
(* index i, the intensity min(1, (i + 1) / n); every intensity is above 0  *)
(* and at most 1, no intensity is below the one before it, and the last    *)
(* one is exactly 1.                                                       *)
C16_IntensityRamp ==
    Len(heatData) > 0
    => LET n == Len(savedLocations)
           q(k) == heatData[k].intensity
       IN /\ Len(heatData) = n
          /\ \A k \in 1 .. n :
                /\ q(k).den > 0
                /\ q(k).num * n = k * q(k).den
                /\ q(k).num > 0
                /\ q(k).num <= q(k).den
                /\ k > 1 => q(k - 1).num * q(k).den <= q(k).num * q(k - 1).den
          /\ q(n).num = q(n).den

\* three locations: 1/3, 2/3, 1
C16_Witness ==
    /\ Len(savedLocations) = 3
    /\ Len(heatData) = 3
    /\ heatData[1].intensity = [num |-> 1, den |-> 3]
    /\ heatData[2].intensity = [num |-> 2, den |-> 3]
    /\ heatData[3].intensity = [num |-> 3, den |-> 3]

(* C17: when a call of dataStore.loadSavedLocations settles without a      *)
(* failure, savedLocations is the features array of the document it        *)
(* fetched, or the empty list when the document has no features field,     *)
(* error is null and loading is false.                                     *)
C17_SuccessfulLoadState ==
    [][\A c \in CallIds :
          (/\ calls[c].pc = "json"
           /\ calls'[c].pc = "done"
           /\ calls'[c].failure = NoFailure)
          => /\ savedLocations' = IF calls'[c].doc.hasFeatures
                                  THEN calls'[c].doc.features ELSE << >>
             /\ error' = NULL
             /\ loading' = FALSE]_vars

\* the component's call is about to succeed while error holds the message
\* of the other call, which failed after the component's call had begun
C17_Witness ==
    /\ calls[CompCall].pc = "json"
    /\ calls[ExtCall].pc = "done"
    /\ calls[ExtCall].failure # NoFailure
    /\ error # NULL
    /\ ~loading

(* C18: the component's call of dataStore.loadSavedLocations has begun     *)
(* only if the map became ready and loadWorldMap has settled; and location *)
(* data has been drawn only if a location load has settled successfully,   *)
(* the component's own when no other call was made.                        *)
C18_LoadAfterMapAndWorld ==
    /\ calls[CompCall].pc # "idle"
       => /\ obs.emitted > 0
          /\ obs.createCalls > 0
          /\ obs.world # "none"
    /\ lastDisplay.made # "none"
       => /\ \E c \in CallIds :
                calls[c].pc = "done" /\ calls[c].failure = NoFailure
          /\ calls[ExtCall].pc = "idle"
             => calls[CompCall].pc = "done"

\* the world fetch was skipped, the component's load has settled and its
\* data is drawn
C18_Witness ==
    /\ obs.world = "notok"
    /\ calls[CompCall].pc = "done"
    /\ calls[CompCall].failure = NoFailure
    /\ calls[ExtCall].pc = "idle"
    /\ lastDisplay.made = "heatmap"
    /\ heatmapInstance # NULL

(* C19: at most one location overlay is attached to the map in every       *)
(* state: never a points layer together with a heatmap layer, never two    *)
(* points layers, never two heatmap layers.                                *)
C19_OneOverlay ==
    \A a \in leafletMap.layers, b \in leafletMap.layers :
        (/\ layers[a].kind \in {"points", "heat"}
         /\ layers[b].kind \in {"points", "heat"})
        => a = b

\* after a toggle from the heatmap to the points: the points layer is the
\* one overlay on the map, the heatmap layer has been removed from it
C19_Witness ==
    /\ savedMarkersLayer \in leafletMap.layers
    /\ layers[savedMarkersLayer].kind = "points"
    /\ heatmapInstance \in LayerIds \ leafletMap.layers
    /\ layers[heatmapInstance].kind = "heat"
    /\ layers[heatmapInstance].onRemoves = 1
    /\ calls[ExtCall].pc = "done"

(* C20 as claimed: for every points layer, at all times, the tooltips on   *)
(* the map are exactly those recorded in the layer's tooltip table, with   *)
(* at most one entry per coordinate key.                                   *)
C20_TooltipsMatchTable ==
    \A id \in LayerIds :
        LET l == layers[id]
        IN l.kind = "points"
           => /\ l.shown = {p[2] : p \in l.tooltips}
              /\ \A p \in l.tooltips, q \in l.tooltips : p[1] = q[1] => p = q

(* C20: for a points layer that is attached to the map, the tooltips on    *)
(* the map are exactly those recorded in its tooltip table, at most one    *)
(* per coordinate key (mouseenter replaces the key's tooltip, mouseleave   *)
(* removes it with its entry); a points layer that has been removed has no *)
(* tooltip on the map, while its table keeps the entries it had.           *)
C20_TooltipsMatchTableWhileAttached ==
    /\ [](\A id \in LayerIds :
            LET l == layers[id]
            IN l.kind = "points"
               => /\ \A p \in l.tooltips, q \in l.tooltips :
                        p[1] = q[1] => p = q
                  /\ id \in leafletMap.layers
                     => l.shown = {p[2] : p \in l.tooltips}
                  /\ id \notin leafletMap.layers => l.shown = {})
    /\ [][\A id \in LayerIds :
            (/\ id \in leafletMap.layers
             /\ id \notin leafletMap'.layers
             /\ layers[id].kind = "points"
             /\ layers'[id].kind = "points")
            => layers'[id].tooltips = layers[id].tooltips]_vars

\* the heatmap has replaced a points layer that had a tooltip open: the
\* tooltip is off the map, its entry is still in the layer's table
C20_Witness ==
    /\ heatmapInstance \in leafletMap.layers
    /\ savedMarkersLayer \in LayerIds \ leafletMap.layers
    /\ layers[savedMarkersLayer].kind = "points"
    /\ layers[savedMarkersLayer].tooltips # {}
    /\ layers[savedMarkersLayer].shown = {}
    /\ layers[savedMarkersLayer].onRemoves = 1

(* C21: the store's loading flag is true exactly while at least one call   *)
(* of loadSavedLocations is in flight (awaiting its fetch or its parse),   *)
(* also when two calls overlap.                                            *)
C21_LoadingWhileInFlight ==
    loading <=> \E c \in CallIds : calls[c].pc \in {"fetch", "json"}

\* one call has settled and cleared the flag while the other still awaits
\* its response
C21_Witness ==
    /\ ~loading
    /\ calls[ExtCall].pc = "done"
    /\ calls[CompCall].pc \in {"fetch", "json"}

(* C22: with the map ready, an attached location overlay is the points     *)
(* layer exactly when displayMode is 'point', the heatmap otherwise, and   *)
(* it was built from the current contents of savedLocations.               *)
C22_OverlayInSync ==
    isMapReady
    => \A id \in leafletMap.layers :
          layers[id].kind \in {"points", "heat"}
          => /\ layers[id].kind = "points" <=> displayMode = "point"
             /\ layers[id].data = savedLocations

\* a later load has emptied savedLocations and the overlay built from the
\* earlier list is still attached
C22_Witness ==
    /\ isMapReady
    /\ savedLocations = << >>
    /\ calls[CompCall].pc = "done"
    /\ calls[ExtCall].pc = "done"
    /\ \E id \in leafletMap.layers :
          /\ layers[id].kind \in {"points", "heat"}
          /\ layers[id].data # << >>

(* C23: every mapInstance.invalidateSize() of the 100 ms callback runs     *)
(* while mapInstance refers to a live map: the callback never runs         *)
(* against a null or removed map.                                          *)
C23_InvalidateOnLiveMap ==
    [][invalidateTimers' < invalidateTimers
         => /\ mapInstance # NULL
            /\ leafletMap.status = "live"
            /\ ~obs'.uncaught]_vars

\* a resize was debounced and the 100 ms timer set, the component was
\* unmounted, and the timer then called invalidateSize on null
C23_Witness ==
    /\ obs.uncaught
    /\ "invalidate" \in obs.late
    /\ mapInstance = NULL
    /\ leafletMap.status = "removed"
    /\ invalidateTimers = 0
    /\ resizeObserver = "disconnected"

C25_NothingAfterTeardown ==
    lifecycle = "unmounted"
    => /\ mapInstance = NULL
       /\ savedMarkersLayer = NULL
       /\ worldMapLayer = NULL
       /\ heatmapInstance = NULL
       /\ ~isMapReady
       /\ leafletMap.status # "live"
       /\ leafletMap.layers = {}
       /\ \A id \in LayerIds : layers[id] = BlankLayer

\* the world boundaries arrived after the teardown: a world layer was
\* built and stored in worldMapLayer before addTo(null) raised
C25_Witness ==
    /\ lifecycle = "unmounted"
    /\ mapInstance = NULL
    /\ worldMapLayer \in LayerIds
    /\ layers[worldMapLayer].kind = "world"
    /\ ~layers[worldMapLayer].map
    /\ obs.world = "addthrew"

====
